---- MODULE Spec2Model ----
(***************************************************************************)
(* Payment Request Engine of transpipe-backend (src/src/models/Payment.js, *)
(* driven through src/src/controllers/paymentController.js) over the       *)
(* relational store of src/unnamed/part_005 (schema) accessed with the     *)
(* BaseModel helpers of src/unnamed/part_012.                              *)
(*                                                                         *)
(* Every `await` on the store is one step of the calling process: between  *)
(* two steps of one call, steps of other calls may run.  Money is counted  *)
(* in cents (two fractional digits), so DECIMAL(15,2) arithmetic is exact. *)
(***************************************************************************)
EXTENDS Integers, Sequences, FiniteSets, TLC

\* ------------------------------------------------------------- bounds
MaxRequests == 2   \* ids the payment_requests sequence hands out
MaxLines == 2      \* lines of one CreateRequest input
MaxAttendance == 2 \* ids the attendance sequence hands out

\* ------------------------------------------------------- static tables
Procs == {"p1", "p2"}              \* inbound requests being served
Users == {1, 2}                    \* rows of users: the accounts
\* the ids a verified token may carry as req.user.id: the accounts, and 3, an
\* id whose row of users is gone while its token has not expired; 3 names no
\* row of users and owns nothing
Callers == Users \cup {3}
RequestIds == {"R1", "R2"}         \* caller-supplied request_id values
ProjectIds == {1, 2}               \* 2 names no project
NULL == 0                          \* SQL NULL of an integer / timestamp column
NoReason == "NULL"                 \* SQL NULL of rejection_reason
Reasons == {"over budget"}
RequestDates == {20240115}
Notes == {"Monthly payment request"}
Times == {1}                       \* values of new Date(); instants are not told apart

\* projects.user_id: the owning account of a project, NULL when no such row
ProjectOwner(projectId) ==
  CASE projectId = 1 -> 1
    [] OTHER -> NULL

\* workers.user_id: the owning account of a worker, NULL when no such row
WorkerOwner(workerId) ==
  CASE workerId = 1 -> 1
    [] workerId = 2 -> 2
    [] OTHER -> NULL

\* the lines a caller may send: workerId, daysWorked, allowancePerDay (cents)
LineInputs ==
  { [workerId |-> 1, daysWorked |-> 20, allowancePerDay |-> 15000],
    [workerId |-> 2, daysWorked |-> 18, allowancePerDay |-> 12000] }

SeqsUpTo(S, n) == UNION { [1..k -> S] : k \in 0..n }

WorkerLists == SeqsUpTo(LineInputs, MaxLines)

\* the paymentIds a caller may send: ids the sequence has not handed out
\* name no request
IdLists == SeqsUpTo(1..MaxRequests, MaxRequests)

\* --------------------------------------------- inputs of the ledger
WorkerIds == {1, 2}
AttendanceDates == {20240115, 20240116}
AttendanceStatuses == {"Present", "Absent"}
NoTime == "NULL"                   \* SQL NULL of check_in / check_out
CheckIns == {"08:00"}
CheckOuts == {NoTime}              \* checkOut left out of the request body
Ratings == {3, 5}
NoComments == "NULL"               \* SQL NULL of comments
Comments == {"good work"}

\* one key of a request body with its value
Field(key, value) == [key |-> key, value |-> value]

\* bodies of PUT /:attendanceId, each the keys of the body in the order
\* Object.keys lists them: one allowed field, a field that is not allowed,
\* and two keys of one column
UpdateInputs ==
  { <<Field("status", "Absent")>>, <<Field("rating", 5)>>,
    <<Field("checkOut", "17:00")>>, <<Field("worker_id", 2)>>,
    <<Field("checkIn", "09:00"), Field("check_in", "10:00")>> }

VARIABLES
  requests,     \* table payment_requests: the committed rows
  lines,        \* table payment_request_workers: the committed rows
  nextId,       \* sequence behind payment_requests.id
  attendance,   \* table attendance: the committed rows
  nextAttendanceId, \* sequence behind attendance.id
  pc,           \* per process: the await its call is suspended at
  loc,          \* per process: the locals of its call
  response      \* the response the latest step sent to its caller, if any

vars == <<requests, lines, nextId, attendance, nextAttendanceId, pc, loc, response>>

\* the tables of the Payment Request Engine and of the Attendance Ledger
payments == <<requests, lines, nextId>>
ledger == <<attendance, nextAttendanceId>>

\* ------------------------------------------------------------ helpers
RECURSIVE SumSeq(_)
SumSeq(s) == IF s = <<>> THEN 0 ELSE Head(s) + SumSeq(Tail(s))

RECURSIVE SumSet(_)
SumSet(S) ==
  IF S = {} THEN 0
  ELSE LET x == CHOOSE y \in S : TRUE IN x.total_amount + SumSet(S \ {x})

Range(s) == { s[i] : i \in DOMAIN s }

\* worker.daysWorked * worker.allowancePerDay
LineTotal(w) == w.daysWorked * w.allowancePerDay

\* TotalAmount with the days forgotten: the allowances alone are summed
TotalAmountRates(workers) ==
  SumSeq([i \in DOMAIN workers |-> workers[i].allowancePerDay])

\* workers.reduce((sum, worker) => sum + daysWorked * allowancePerDay, 0)
TotalAmount(workers) == SumSeq([i \in DOMAIN workers |-> LineTotal(workers[i])])

\* SELECT * FROM payment_requests WHERE id = $1
findById(id) == { r \in requests : r.id = id }

\* SELECT * FROM payment_requests WHERE request_id = $1 LIMIT 1
findByRequestId(requestId) == { r \in requests : r.request_id = requestId }

\* rows of payment_request_workers of one request
LinesOf(id) == { l \in lines : l.payment_request_id = id }

\* SET <field> = <value> for every field of data
SetFields(r, data) ==
  [f \in DOMAIN r |-> IF f \in DOMAIN data THEN data[f] ELSE r[f]]

\* an UPDATE of payment_requests that lacks its WHERE clause
updateByIdEveryRow(id, data) == { SetFields(r, data) : r \in requests }

\* UPDATE payment_requests SET ... WHERE id = $1 RETURNING *: the table after
updateById(id, data) ==
  { IF r.id = id THEN SetFields(r, data) ELSE r : r \in requests }

\* A response: the operation answered, the kind of the answer, and what a
\* success reports: the ids set to Processed, a count and an amount.
Respond(op, kind) ==
  [op |-> op, kind |-> kind, processed |-> {}, count |-> 0, total |-> 0,
   stats |-> <<>>]

\* the step sent no response: its call is suspended at an await
NoResponse == Respond("none", "none")

NoLocals ==
  [ caller |-> NULL, requestId |-> "", projectId |-> NULL, requestDate |-> NULL,
    notes |-> "", workers |-> <<>>, total |-> 0, reason |-> NoReason,
    id |-> NULL, ids |-> <<>>, vals |-> <<>>, k |-> 0, done |-> {},
    missed |-> FALSE ]

Finish(p, r) ==
  /\ pc' = [pc EXCEPT ![p] = "idle"]
  /\ loc' = [loc EXCEPT ![p] = NoLocals]
  /\ response' = r

Suspend(p, at, L) ==
  /\ pc' = [pc EXCEPT ![p] = at]
  /\ loc' = [loc EXCEPT ![p] = L]
  /\ response' = NoResponse

Init ==
  /\ requests = {}
  /\ lines = {}
  /\ nextId = 1
  /\ attendance = {}
  /\ nextAttendanceId = 1
  /\ pc = [p \in Procs |-> "idle"]
  /\ loc = [p \in Procs |-> NoLocals]
  /\ response = NoResponse

\* ------------------------------------------------------- errorHandler
\* an error thrown by the store that carries no code
NoCode == "none"

\* The answer of errorHandler to an error the store threw, by err.code: the
\* switch on the codes of PostgreSQL, then the tests of ECONNREFUSED and
\* EACCES; an error without code keeps no statusCode and is answered 500.
errorHandler(code) ==
  CASE code = NoCode -> "Internal"
    [] code = "23505" -> "Conflict"
    [] code \in {"23503", "23502", "23514"} -> "BadRequest"
    [] code \in {"42P01", "42703", "28P01", "3D000"} -> "Internal"
    [] code = "08006" -> "Unavailable"
    [] code = "ECONNREFUSED" -> "Unavailable"
    [] code = "EACCES" -> "PermissionDenied"
    [] OTHER -> "Internal"

\* the codes of the errors a write statement meets when the store fails: a
\* connection that ends (without code, or 08006), a connection refused, a
\* statement cancelled (57014, which the switch leaves to its default)
WriteErrors == {NoCode, "08006", "ECONNREFUSED", "57014"}

\* ------------------------------------------------------ CreateRequest
\* CreateError without the test of findByRequestId
CreateErrorNoDup(userId, requestId, projectId, workers) ==
  IF userId \notin Users THEN "NotFound"
  ELSE IF ProjectOwner(projectId) = NULL \/ ProjectOwner(projectId) # userId
    THEN "NotFound"
  ELSE IF \E i \in DOMAIN workers : WorkerOwner(workers[i].workerId) # userId
    THEN "NotFound"
  ELSE "none"

\* CreateError testing the first worker only
CreateErrorFirstWorker(userId, requestId, projectId, workers) ==
  IF userId \notin Users THEN "NotFound"
  ELSE IF ProjectOwner(projectId) = NULL \/ ProjectOwner(projectId) # userId
    THEN "NotFound"
  ELSE IF findByRequestId(requestId) # {} THEN "Conflict"
  ELSE IF workers # <<>> /\ WorkerOwner(workers[1].workerId) # userId
    THEN "NotFound"
  ELSE "none"

\* The first failing precondition of createPaymentRequest, in the order the
\* code tests them, as the controller classifies its message; "none" when
\* all pass.  Users, projects and workers never change, so their lookups
\* are evaluated with the one read of payment_requests between them.
CreateError(userId, requestId, projectId, workers) ==
  IF userId \notin Users THEN "NotFound"
  ELSE IF ProjectOwner(projectId) = NULL \/ ProjectOwner(projectId) # userId
    THEN "NotFound"
  ELSE IF findByRequestId(requestId) # {} THEN "Conflict"
  ELSE IF \E i \in DOMAIN workers : WorkerOwner(workers[i].workerId) # userId
    THEN "NotFound"
  ELSE "none"

\* createPaymentRequest up to the call of this.transaction
CreateCheck(p, userId, requestId, projectId, requestDate, workers, notes) ==
  /\ pc[p] = "idle"
  /\ LET err == CreateError(userId, requestId, projectId, workers) IN
     IF err # "none"
       THEN Finish(p, Respond("create", err))
       ELSE /\ nextId <= MaxRequests
            /\ Suspend(p, "createTransaction",
                 [NoLocals EXCEPT !.caller = userId, !.requestId = requestId,
                                  !.projectId = projectId,
                                  !.requestDate = requestDate, !.notes = notes,
                                  !.workers = workers,
                                  !.total = TotalAmount(workers)])
  /\ UNCHANGED <<requests, lines, nextId, ledger>>

\* the row INSERT INTO payment_requests ... RETURNING * produces
NewRequestRow(id, L) ==
  [ id |-> id, request_id |-> L.requestId, user_id |-> L.caller,
    project_id |-> L.projectId, request_date |-> L.requestDate,
    total_amount |-> L.total, notes |-> L.notes, status |-> "Pending",
    approved_by |-> NULL, approved_at |-> NULL, rejection_reason |-> NoReason ]

\* the row the i-th INSERT INTO payment_request_workers produces; line_no
\* stands for the serial id, which orders the rows of one request
NewLineRow(paymentRequestId, i, w) ==
  [ payment_request_id |-> paymentRequestId, line_no |-> i,
    worker_id |-> w.workerId, days_worked |-> w.daysWorked,
    allowance_per_day |-> w.allowancePerDay, total_amount |-> LineTotal(w) ]

\* The statements the transaction callback issues, in order: statement 1
\* inserts the request, statement i + 1 inserts line i.  Each is the rows it
\* adds to the two tables.
CreateStatements(id, L) ==
  [ s \in 1..(Len(L.workers) + 1) |->
      IF s = 1
        THEN [requests |-> {NewRequestRow(id, L)}, lines |-> {}]
        ELSE [requests |-> {}, lines |-> {NewLineRow(id, s - 1, L.workers[s - 1])}] ]

\* db.transaction(callback): what a run of the statements makes visible when
\* statement failAt fails (0: none fails).  All of them commit together, or
\* all are rolled back.
transaction(stmts, failAt) ==
  IF failAt = 0
    THEN [ requests |-> UNION { stmts[s].requests : s \in DOMAIN stmts },
           lines |-> UNION { stmts[s].lines : s \in DOMAIN stmts } ]
    ELSE [ requests |-> {}, lines |-> {} ]

\* RunCreateTransaction with every statement committed on its own: the
\* statements before the failing one stay
RunCreateAutocommit(p, failAt, code) ==
  /\ pc[p] = "createTransaction"
  /\ nextId <= MaxRequests
  /\ nextId' = IF failAt = 1 THEN nextId ELSE nextId + 1
  /\ UNCHANGED ledger
  /\ LET dup == failAt # 1 /\ findByRequestId(loc[p].requestId) # {}
         stmts == CreateStatements(nextId, loc[p])
         stop == IF dup THEN 1 ELSE IF failAt = 0 THEN Len(stmts) + 1 ELSE failAt
         ran == { s \in DOMAIN stmts : s < stop } IN
       /\ requests' = requests \cup UNION { stmts[s].requests : s \in ran }
       /\ lines' = lines \cup UNION { stmts[s].lines : s \in ran }
       /\ Finish(p, Respond("create",
            IF dup THEN errorHandler("23505")
            ELSE IF failAt # 0 THEN errorHandler(code) ELSE "OK"))

\* The transaction of createPaymentRequest, whose rows become visible at its
\* commit; statement failAt meets a failure of the store whose error carries
\* code (failAt = 0: none does).  The INSERT of the request, once the store
\* executes it, draws the id, and UNIQUE(request_id) fails it when the
\* request_id was committed since the check (error 23505); an insert of a
\* request_id held by an open transaction waits for its end, so it runs
\* after that commit.  An id drawn is not given back by the rollback; when
\* the store fails statement 1 itself the INSERT is not executed and no id
\* is drawn.  The error goes through the controller's catch, whose tests of
\* the message it does not meet, to the error handler.
RunCreateTransaction(p, failAt, code) ==
  /\ pc[p] = "createTransaction"
  /\ nextId <= MaxRequests
  /\ nextId' = IF failAt = 1 THEN nextId ELSE nextId + 1
  /\ UNCHANGED ledger
  /\ LET dup == failAt # 1 /\ findByRequestId(loc[p].requestId) # {}
         t == transaction(CreateStatements(nextId, loc[p]),
                          IF dup THEN 1 ELSE failAt) IN
       /\ requests' = requests \cup t.requests
       /\ lines' = lines \cup t.lines
       /\ Finish(p, Respond("create",
            IF dup THEN errorHandler("23505")
            ELSE IF failAt # 0 THEN errorHandler(code) ELSE "OK"))

\* every statement succeeds
CreateTransaction(p) == RunCreateTransaction(p, 0, NoCode)

\* statement failAt meets a failure of the store, whose error carries code
CreateTransactionFails(p, failAt, code) ==
  /\ failAt \in 1..(Len(loc[p].workers) + 1)
  /\ RunCreateTransaction(p, failAt, code)

\* ------------------------------------------------------------ Approve
\* the data approvePaymentRequest hands to updateById
ApproveData(approvedBy, now) ==
  [status |-> "Approved", approved_by |-> approvedBy, approved_at |-> now]

\* IsPending letting an Approved request through
IsPendingLoose(r) == r.status \in {"Pending", "Approved"}

\* the status test of approvePaymentRequest, rejectPaymentRequest and
\* deletePaymentRequest
IsPending(r) == r.status = "Pending"

\* approvePaymentRequest refusing a caller who does not own the request
ApproveFindOwnerOnly(p, userId, requestId) ==
  /\ pc[p] = "idle"
  /\ LET found == { r \in findByRequestId(requestId) : r.user_id = userId } IN
     IF found = {} THEN Finish(p, Respond("approve", "NotFound"))
     ELSE LET r == CHOOSE x \in found : TRUE IN
       IF ~IsPending(r) THEN Finish(p, Respond("approve", "InvalidState"))
       ELSE Suspend(p, "approveUpdate",
              [NoLocals EXCEPT !.caller = userId, !.requestId = requestId,
                               !.id = r.id])
  /\ UNCHANGED <<requests, lines, nextId, ledger>>

\* approvePaymentRequest up to the call of updateById
ApproveFind(p, userId, requestId) ==
  /\ pc[p] = "idle"
  /\ LET found == findByRequestId(requestId) IN
     IF found = {} THEN Finish(p, Respond("approve", "NotFound"))
     ELSE LET r == CHOOSE x \in found : TRUE IN
       IF ~IsPending(r) THEN Finish(p, Respond("approve", "InvalidState"))
       ELSE Suspend(p, "approveUpdate",
              [NoLocals EXCEPT !.caller = userId, !.requestId = requestId,
                               !.id = r.id])
  /\ UNCHANGED <<requests, lines, nextId, ledger>>

\* approved_by INTEGER REFERENCES users(id): an UPDATE that would store in
\* approved_by of some row an id that names no row of users is refused by
\* the store (23503) and writes nothing
ApprovedByRefused(id, approvedBy) ==
  findById(id) # {} /\ approvedBy \notin Users

\* updateById(paymentRequest.id, {status: 'Approved', ...}) and the response;
\* on a null result (the row is gone) the controller throws: 500; a refusal
\* of the store for the foreign key is answered 400 by the error handler
ApproveUpdate(p, now) ==
  /\ pc[p] = "approveUpdate"
  /\ IF ApprovedByRefused(loc[p].id, loc[p].caller)
       THEN /\ requests' = requests
            /\ Finish(p, Respond("approve", errorHandler("23503")))
       ELSE /\ requests' = updateById(loc[p].id, ApproveData(loc[p].caller, now))
            /\ Finish(p, Respond("approve",
                 IF findById(loc[p].id) = {} THEN "Internal" ELSE "OK"))
  /\ UNCHANGED <<lines, nextId, ledger>>

\* ------------------------------------------------------------- Reject
\* RejectData that leaves approved_by and approved_at as they are
RejectDataNoApprover(rejectedBy, now, reason) ==
  [status |-> "Rejected", rejection_reason |-> reason]

\* the data rejectPaymentRequest hands to updateById
RejectData(rejectedBy, now, reason) ==
  [status |-> "Rejected", approved_by |-> rejectedBy, approved_at |-> now,
   rejection_reason |-> reason]

\* rejectPaymentRequest up to the call of updateById
RejectFind(p, userId, requestId, reason) ==
  /\ pc[p] = "idle"
  /\ LET found == findByRequestId(requestId) IN
     IF found = {} THEN Finish(p, Respond("reject", "NotFound"))
     ELSE LET r == CHOOSE x \in found : TRUE IN
       IF ~IsPending(r) THEN Finish(p, Respond("reject", "InvalidState"))
       ELSE Suspend(p, "rejectUpdate",
              [NoLocals EXCEPT !.caller = userId, !.requestId = requestId,
                               !.id = r.id, !.reason = reason])
  /\ UNCHANGED <<requests, lines, nextId, ledger>>

\* updateById(paymentRequest.id, {status: 'Rejected', ...}) and the response;
\* the rejecting caller goes to approved_by, under the same foreign key
RejectUpdate(p, now) ==
  /\ pc[p] = "rejectUpdate"
  /\ IF ApprovedByRefused(loc[p].id, loc[p].caller)
       THEN /\ requests' = requests
            /\ Finish(p, Respond("reject", errorHandler("23503")))
       ELSE /\ requests' = updateById(loc[p].id,
                             RejectData(loc[p].caller, now, loc[p].reason))
            /\ Finish(p, Respond("reject",
                 IF findById(loc[p].id) = {} THEN "Internal" ELSE "OK"))
  /\ UNCHANGED <<lines, nextId, ledger>>

\* ------------------------------------------------------- ProcessBatch
\* ProcessItemError without the test of the status
ProcessItemErrorNoStatus(found, userId) ==
  IF found = {} THEN "NotFound"
  ELSE LET payment == CHOOSE x \in found : TRUE IN
    IF payment.user_id # userId THEN "Forbidden" ELSE "none"

\* the test processPayments applies to one id, as the controller classifies
\* its message; "none" when the request passes
ProcessItemError(found, userId) ==
  IF found = {} THEN "NotFound"
  ELSE LET payment == CHOOSE x \in found : TRUE IN
    IF payment.user_id # userId THEN "Forbidden"
    ELSE IF payment.status # "Approved" THEN "InvalidState"
    ELSE "none"

\* one turn of the validation loop: findById and the three tests on the
\* next id, then paymentRequests.push(payment)
ValidateItem(p, L) ==
  LET i == Len(L.vals) + 1
      found == findById(L.ids[i])
      err == ProcessItemError(found, L.caller) IN
    IF err # "none" THEN Finish(p, Respond("process", err))
    ELSE LET payment == CHOOSE x \in found : TRUE IN
      Suspend(p, IF i = Len(L.ids) THEN "processUpdate" ELSE "processValidate",
              [L EXCEPT !.vals = Append(@, [id |-> payment.id,
                                            total_amount |-> payment.total_amount])])

\* the controller's test of paymentIds, then the first turn of the loop
ProcessStart(p, userId, ids) ==
  /\ pc[p] = "idle"
  /\ IF ids = <<>> THEN Finish(p, Respond("process", "Validation"))
     ELSE ValidateItem(p, [NoLocals EXCEPT !.caller = userId, !.ids = ids])
  /\ UNCHANGED <<requests, lines, nextId, ledger>>

\* a later turn of the validation loop
ProcessValidate(p) ==
  /\ pc[p] = "processValidate"
  /\ ValidateItem(p, loc[p])
  /\ UNCHANGED <<requests, lines, nextId, ledger>>

\* the data processPayments hands to updateById
ProcessData == [status |-> "Processed"]

\* One turn of the update loop: updateById(payment.id, {status: 'Processed'})
\* on the next validated request.  After the last turn the response: a null
\* among the results (a row that is gone) makes the controller throw, 500.
ProcessUpdate(p) ==
  /\ pc[p] = "processUpdate"
  /\ LET L == loc[p]
         payment == L.vals[L.k + 1]
         hit == findById(payment.id) # {}
         done == IF hit THEN L.done \cup {payment.id} ELSE L.done
         missed == L.missed \/ ~hit IN
       /\ requests' = updateById(payment.id, ProcessData)
       /\ IF L.k + 1 < Len(L.vals)
            THEN Suspend(p, "processUpdate",
                   [L EXCEPT !.k = L.k + 1, !.done = done, !.missed = missed])
            ELSE Finish(p, IF missed
                   THEN [Respond("process", "Internal") EXCEPT !.processed = done]
                   ELSE [Respond("process", "OK") EXCEPT
                           !.processed = done,
                           !.count = Len(L.ids),
                           !.total = SumSeq([i \in DOMAIN L.vals |->
                                              L.vals[i].total_amount])])
  /\ UNCHANGED <<lines, nextId, ledger>>

\* ------------------------------------------------------------- Delete
\* deleteById without the cascade: the lines of the request stay
deleteByIdNoCascade(id) ==
  [requests |-> requests \ findById(id), lines |-> lines]

\* DELETE FROM payment_requests WHERE id = $1, with the ON DELETE CASCADE of
\* payment_request_workers.payment_request_id: the two tables after
deleteById(id) ==
  [requests |-> requests \ findById(id), lines |-> lines \ LinesOf(id)]

\* deletePaymentRequest up to the call of deleteById
DeleteFind(p, userId, id) ==
  /\ pc[p] = "idle"
  /\ LET found == findById(id) IN
     IF found = {} \/ (\E r \in found : r.user_id # userId)
       THEN Finish(p, Respond("delete", "NotFound"))
     ELSE LET r == CHOOSE x \in found : TRUE IN
       IF ~IsPending(r) THEN Finish(p, Respond("delete", "InvalidState"))
       ELSE Suspend(p, "deleteExecute",
              [NoLocals EXCEPT !.caller = userId, !.id = id])
  /\ UNCHANGED <<requests, lines, nextId, ledger>>

\* deleteById(paymentRequestId) and the response: 404 when no row was deleted
DeleteExecute(p) ==
  /\ pc[p] = "deleteExecute"
  /\ requests' = deleteById(loc[p].id).requests
  /\ lines' = deleteById(loc[p].id).lines
  /\ Finish(p, Respond("delete",
       IF findById(loc[p].id) = {} THEN "NotFound" ELSE "OK"))
  /\ UNCHANGED <<nextId, ledger>>

\* -------------------------------------------------------- GetWithLines
\* GetFind telling a request of another account from an absent one
GetFindLeaky(p, userId, id) ==
  /\ pc[p] = "idle"
  /\ LET found == findById(id) IN
     IF found = {} THEN Finish(p, Respond("get", "NotFound"))
     ELSE LET r == CHOOSE x \in found : TRUE IN
       IF r.user_id # userId THEN Finish(p, Respond("get", "Forbidden"))
       ELSE Suspend(p, "getLines",
         [NoLocals EXCEPT !.caller = userId, !.id = id, !.total = r.total_amount])
  /\ UNCHANGED <<requests, lines, nextId, ledger>>

\* getPaymentRequestWithWorkers up to the query of the lines
GetFind(p, userId, id) ==
  /\ pc[p] = "idle"
  /\ LET found == findById(id) IN
     IF found = {} \/ (\E r \in found : r.user_id # userId)
       THEN Finish(p, Respond("get", "NotFound"))
     ELSE LET r == CHOOSE x \in found : TRUE IN
       Suspend(p, "getLines",
         [NoLocals EXCEPT !.caller = userId, !.id = id, !.total = r.total_amount])
  /\ UNCHANGED <<requests, lines, nextId, ledger>>

\* SELECT prw.* ... WHERE prw.payment_request_id = $1 and the response: the
\* request as it was read, with the lines as they are now
GetLines(p) ==
  /\ pc[p] = "getLines"
  /\ Finish(p, [Respond("get", "OK") EXCEPT
                  !.count = Cardinality(LinesOf(loc[p].id)),
                  !.total = loc[p].total])
  /\ UNCHANGED <<requests, lines, nextId, ledger>>

\* ----------------------------------------------------- Attendance Ledger
\* SELECT * FROM attendance WHERE id = $1
findAttendanceById(id) == { a \in attendance : a.id = id }

\* findOne({ worker_id, project_id, date })
findByWorkerAndProject(workerId, projectId, date) ==
  { a \in attendance : /\ a.worker_id = workerId /\ a.project_id = projectId
                       /\ a.date = date }

\* an update that writes the row anew, times of the day left out
updateAttendanceByIdAnew(id, data) ==
  { IF a.id = id
      THEN SetFields([a EXCEPT !.check_in = NoTime, !.check_out = NoTime], data)
      ELSE a : a \in attendance }

\* UPDATE attendance SET ... WHERE id = $1 RETURNING *: the table after
updateAttendanceById(id, data) ==
  { IF a.id = id THEN SetFields(a, data) ELSE a : a \in attendance }

\* The checks createAttendance and markAttendanceWithRating make before they
\* look for the record, as the controller classifies their messages; "none"
\* when all pass.
AttendanceError(userId, workerId, projectId) ==
  IF userId \notin Users THEN "NotFound"
  ELSE IF WorkerOwner(workerId) # userId THEN "NotFound"
  ELSE IF ProjectOwner(projectId) = NULL \/ ProjectOwner(projectId) # userId
    THEN "NotFound"
  ELSE "none"

\* the row this.create(...) inserts, before the sequence gives it an id
NewAttendance(userId, workerId, projectId, date, checkIn, checkOut, status, rating, comments) ==
  [user_id |-> userId, worker_id |-> workerId, project_id |-> projectId,
   date |-> date, check_in |-> checkIn, check_out |-> checkOut,
   status |-> status, rating |-> rating, comments |-> comments]

\* the row with the id the sequence hands out
WithId(row, id) ==
  [f \in DOMAIN row \cup {"id"} |-> IF f = "id" THEN id ELSE row[f]]

\* INSERT INTO attendance on a table that lacks the UNIQUE constraint
InsertAttendanceNoUnique(p, op) ==
  /\ nextAttendanceId <= MaxAttendance
  /\ nextAttendanceId' = nextAttendanceId + 1
  /\ attendance' = attendance \cup {WithId(loc[p].row, nextAttendanceId)}
  /\ Finish(p, Respond(op, "OK"))
  /\ UNCHANGED payments

\* INSERT INTO attendance ... RETURNING * and the response.  The sequence
\* advances whether or not the row is kept; UNIQUE(worker_id, project_id,
\* date) refuses a second row of a tuple with 23505, answered 409.
InsertAttendance(p, op) ==
  /\ nextAttendanceId <= MaxAttendance
  /\ nextAttendanceId' = nextAttendanceId + 1
  /\ LET row == loc[p].row IN
     IF findByWorkerAndProject(row.worker_id, row.project_id, row.date) # {}
       THEN /\ attendance' = attendance
            /\ Finish(p, Respond(op, "Conflict"))
       ELSE /\ attendance' = attendance \cup {WithId(row, nextAttendanceId)}
            /\ Finish(p, Respond(op, "OK"))
  /\ UNCHANGED payments

\* createAttendance without its look-up of the tuple
CreateAttendanceCheckNoLookup(p, userId, workerId, projectId, date, checkIn, checkOut, status) ==
  /\ pc[p] = "idle"
  /\ LET err == AttendanceError(userId, workerId, projectId) IN
     IF err # "none" THEN Finish(p, Respond("record", err))
     ELSE /\ nextAttendanceId <= MaxAttendance
          /\ Suspend(p, "createAttendanceInsert",
               [caller |-> userId,
                row |-> NewAttendance(userId, workerId, projectId, date,
                          checkIn, checkOut, status, NULL, NoComments)])
  /\ UNCHANGED <<payments, ledger>>

\* createAttendance up to the call of this.create
CreateAttendanceCheck(p, userId, workerId, projectId, date, checkIn, checkOut, status) ==
  /\ pc[p] = "idle"
  /\ LET err == AttendanceError(userId, workerId, projectId) IN
     IF err # "none" THEN Finish(p, Respond("record", err))
     ELSE IF findByWorkerAndProject(workerId, projectId, date) # {}
       THEN Finish(p, Respond("record", "Conflict"))
     ELSE /\ nextAttendanceId <= MaxAttendance
          /\ Suspend(p, "createAttendanceInsert",
               [caller |-> userId,
                row |-> NewAttendance(userId, workerId, projectId, date,
                          checkIn, checkOut, status, NULL, NoComments)])
  /\ UNCHANGED <<payments, ledger>>

\* this.create({...}) of createAttendance
CreateAttendanceInsert(p) ==
  /\ pc[p] = "createAttendanceInsert"
  /\ InsertAttendance(p, "record")

\* the data markAttendanceWithRating hands to updateById
MarkData(status, rating, comments) ==
  [status |-> status, rating |-> rating, comments |-> comments]

\* markAttendanceWithRating without its look-up of the tuple: always an insert
MarkAttendanceCheckNoLookup(p, userId, workerId, projectId, date, status, rating, comments) ==
  /\ pc[p] = "idle"
  /\ LET err == AttendanceError(userId, workerId, projectId) IN
     IF err # "none" THEN Finish(p, Respond("mark", err))
     ELSE /\ nextAttendanceId <= MaxAttendance
          /\ Suspend(p, "markAttendanceInsert",
               [caller |-> userId,
                row |-> NewAttendance(userId, workerId, projectId, date,
                          NoTime, NoTime, status, rating, comments)])
  /\ UNCHANGED <<payments, ledger>>

\* markAttendanceWithRating up to the call of updateById or of this.create
MarkAttendanceCheck(p, userId, workerId, projectId, date, status, rating, comments) ==
  /\ pc[p] = "idle"
  /\ LET err == AttendanceError(userId, workerId, projectId)
         existingAttendance == findByWorkerAndProject(workerId, projectId, date) IN
     IF err # "none" THEN Finish(p, Respond("mark", err))
     ELSE IF existingAttendance # {}
       THEN Suspend(p, "markAttendanceUpdate",
              [caller |-> userId,
               id |-> (CHOOSE a \in existingAttendance : TRUE).id,
               data |-> MarkData(status, rating, comments)])
     ELSE /\ nextAttendanceId <= MaxAttendance
          /\ Suspend(p, "markAttendanceInsert",
               [caller |-> userId,
                row |-> NewAttendance(userId, workerId, projectId, date,
                          NoTime, NoTime, status, rating, comments)])
  /\ UNCHANGED <<payments, ledger>>

\* updateById(existingAttendance.id, {status, rating, comments}) and the
\* response: a row that is gone makes attendance.id throw, answered 500
MarkAttendanceUpdate(p) ==
  /\ pc[p] = "markAttendanceUpdate"
  /\ attendance' = updateAttendanceById(loc[p].id, loc[p].data)
  /\ Finish(p, Respond("mark",
       IF findAttendanceById(loc[p].id) = {} THEN "Internal" ELSE "OK"))
  /\ UNCHANGED <<payments, nextAttendanceId>>

\* this.create({...}) of markAttendanceWithRating
MarkAttendanceInsert(p) ==
  /\ pc[p] = "markAttendanceInsert"
  /\ InsertAttendance(p, "mark")

\* fieldMapping of updateAttendance
FieldMapping ==
  [checkIn |-> "check_in", checkOut |-> "check_out", status |-> "status",
   rating |-> "rating", comments |-> "comments"]

\* fieldMapping[key] || key
DbField(key) == IF key \in DOMAIN FieldMapping THEN FieldMapping[key] ELSE key

\* Object.values(fieldMapping)
AllowedFields == { FieldMapping[k] : k \in DOMAIN FieldMapping }

\* filteredData after one more key of updateData: filteredData[dbField] = value
WithField(filteredData, dbField, value) ==
  [f \in DOMAIN filteredData \cup {dbField} |->
     IF f = dbField THEN value ELSE filteredData[f]]

\* filteredData with every field of updateData let through
RECURSIVE FilteredDataAnyField(_)
FilteredDataAnyField(updateData) ==
  IF updateData = <<>> THEN <<>>
  ELSE LET n == Len(updateData) IN
       WithField(FilteredDataAnyField(SubSeq(updateData, 1, n - 1)),
                 DbField(updateData[n].key), updateData[n].value)

\* filteredData: Object.keys(updateData).forEach in the order of the keys;
\* an allowed field is stored under its column name, a later key of the same
\* column replacing an earlier one
RECURSIVE FilteredData(_)
FilteredData(updateData) ==
  IF updateData = <<>> THEN <<>>
  ELSE LET n == Len(updateData)
           before == FilteredData(SubSeq(updateData, 1, n - 1))
           dbField == DbField(updateData[n].key) IN
       IF dbField \in AllowedFields
         THEN WithField(before, dbField, updateData[n].value)
         ELSE before

\* updateAttendance without its ownership check
UpdateAttendanceFindAnyCaller(p, userId, attendanceId, updateData) ==
  /\ pc[p] = "idle"
  /\ IF findAttendanceById(attendanceId) = {}
       THEN Finish(p, Respond("update", "NotFound"))
       ELSE Suspend(p, "updateAttendanceWrite",
              [caller |-> userId, id |-> attendanceId,
               data |-> FilteredData(updateData)])
  /\ UNCHANGED <<payments, ledger>>

\* updateAttendance up to the call of updateById
UpdateAttendanceFind(p, userId, attendanceId, updateData) ==
  /\ pc[p] = "idle"
  /\ LET found == findAttendanceById(attendanceId) IN
     IF found = {} THEN Finish(p, Respond("update", "NotFound"))
     ELSE IF \E a \in found : a.user_id # userId
       THEN Finish(p, Respond("update", "Forbidden"))
     ELSE Suspend(p, "updateAttendanceWrite",
            [caller |-> userId, id |-> attendanceId,
             data |-> FilteredData(updateData)])
  /\ UNCHANGED <<payments, ledger>>

\* updateById(attendanceId, filteredData) and the response: with no field
\* left the statement is "SET , updated_at = ..." and the store refuses it,
\* answered 500; a row that is gone is answered 404
UpdateAttendanceWrite(p) ==
  /\ pc[p] = "updateAttendanceWrite"
  /\ IF DOMAIN loc[p].data = {}
       THEN /\ attendance' = attendance
            /\ Finish(p, Respond("update", "Internal"))
       ELSE /\ attendance' = updateAttendanceById(loc[p].id, loc[p].data)
            /\ Finish(p, Respond("update",
                 IF findAttendanceById(loc[p].id) = {} THEN "NotFound" ELSE "OK"))
  /\ UNCHANGED <<payments, nextAttendanceId>>

\* deleteAttendance up to the call of deleteById
DeleteAttendanceFind(p, userId, attendanceId) ==
  /\ pc[p] = "idle"
  /\ LET found == findAttendanceById(attendanceId) IN
     IF found = {} \/ (\E a \in found : a.user_id # userId)
       THEN Finish(p, Respond("deleteAttendance", "NotFound"))
     ELSE Suspend(p, "deleteAttendanceExecute",
            [caller |-> userId, id |-> attendanceId])
  /\ UNCHANGED <<payments, ledger>>

\* deleteById(attendanceId) and the response: 404 when no row was deleted
DeleteAttendanceExecute(p) ==
  /\ pc[p] = "deleteAttendanceExecute"
  /\ attendance' = attendance \ findAttendanceById(loc[p].id)
  /\ Finish(p, Respond("deleteAttendance",
       IF findAttendanceById(loc[p].id) = {} THEN "NotFound" ELSE "OK"))
  /\ UNCHANGED <<payments, nextAttendanceId>>

\* -------------------------------------------------- persistence failures
\* The UPDATE or DELETE a call is about to issue fails in the store with an
\* error that carries code: updateById / deleteById log and rethrow it, the
\* controller's catch finds none of its messages in it and hands it on, and
\* the error handler answers by the code.  Nothing is written.
WriteFails(p, code) ==
  /\ pc[p] \in {"approveUpdate", "rejectUpdate", "processUpdate", "deleteExecute"}
  /\ Finish(p, [Respond(CASE pc[p] = "approveUpdate" -> "approve"
                          [] pc[p] = "rejectUpdate" -> "reject"
                          [] pc[p] = "processUpdate" -> "process"
                          [] OTHER -> "delete", errorHandler(code))
                  EXCEPT !.processed = loc[p].done])
  /\ UNCHANGED <<requests, lines, nextId, ledger>>

\* ------------------------------------------------------ specifications
\* a caller starts a call on one of the request ids rids
Start(p, rids) ==
  \/ \E u \in Callers, rid \in rids, pid \in ProjectIds,
        d \in RequestDates, ws \in WorkerLists, n \in Notes :
       CreateCheck(p, u, rid, pid, d, ws, n)
  \/ \E u \in Callers, rid \in rids : ApproveFind(p, u, rid)
  \/ \E u \in Callers, rid \in rids, why \in Reasons : RejectFind(p, u, rid, why)
  \/ \E u \in Callers, ids \in IdLists : ProcessStart(p, u, ids)
  \/ \E u \in Callers, id \in 1..MaxRequests : DeleteFind(p, u, id)
  \/ \E u \in Callers, id \in 1..MaxRequests : GetFind(p, u, id)

\* a suspended call resumes: the store has executed its statement
Resume(p) ==
  \/ CreateTransaction(p)
  \/ \E now \in Times : ApproveUpdate(p, now)
  \/ \E now \in Times : RejectUpdate(p, now)
  \/ ProcessValidate(p)
  \/ ProcessUpdate(p)
  \/ DeleteExecute(p)
  \/ GetLines(p)

\* a suspended call resumes: the store has failed its write statement
Fault(p) ==
  \/ \E failAt \in 1..(MaxLines + 1), code \in WriteErrors :
       CreateTransactionFails(p, failAt, code)
  \/ \E code \in WriteErrors : WriteFails(p, code)

\* the request id concurrent callers contend for
Contended == {"R1"}

\* the process that serves the calls when they come one at a time
Serial == CHOOSE p \in Procs : TRUE

\* Calls interleave at their awaits, all naming one request id; the store
\* executes every statement.
Next == \E p \in Procs : Start(p, Contended) \/ Resume(p)
Spec == Init /\ [][Next]_vars

\* One call at a time, on any request id; the store executes every statement.
NextSeq == Start(Serial, RequestIds) \/ Resume(Serial)
SpecSeq == Init /\ [][NextSeq]_vars

\* One call at a time, on any request id; a write statement may meet a
\* persistence failure.
NextFault == Start(Serial, RequestIds) \/ Resume(Serial) \/ Fault(Serial)
SpecFault == Init /\ [][NextFault]_vars

\* a caller starts a call of the ledger on one of the dates
StartAttendance(p, dates) ==
  \/ \E u \in Callers, w \in WorkerIds, pid \in ProjectIds, d \in dates,
        ci \in CheckIns, co \in CheckOuts, st \in AttendanceStatuses :
       CreateAttendanceCheck(p, u, w, pid, d, ci, co, st)
  \/ \E u \in Callers, w \in WorkerIds, pid \in ProjectIds, d \in dates,
        st \in AttendanceStatuses, r \in Ratings, c \in Comments :
       MarkAttendanceCheck(p, u, w, pid, d, st, r, c)
  \/ \E u \in Callers, id \in 1..MaxAttendance, data \in UpdateInputs :
       UpdateAttendanceFind(p, u, id, data)
  \/ \E u \in Callers, id \in 1..MaxAttendance : DeleteAttendanceFind(p, u, id)

\* a suspended call of the ledger resumes: the store has executed its statement
ResumeAttendance(p) ==
  \/ CreateAttendanceInsert(p)
  \/ MarkAttendanceUpdate(p)
  \/ MarkAttendanceInsert(p)
  \/ UpdateAttendanceWrite(p)
  \/ DeleteAttendanceExecute(p)

\* the date concurrent callers of the ledger contend for
ContendedDates == {20240115}

\* Calls of the ledger interleave at their awaits, all on one date.
NextAttendance ==
  \E p \in Procs : StartAttendance(p, ContendedDates) \/ ResumeAttendance(p)
SpecAttendance == Init /\ [][NextAttendance]_vars

\* Calls of the ledger come one at a time, on any date.
NextAttendanceSeq ==
  StartAttendance(Serial, AttendanceDates) \/ ResumeAttendance(Serial)
SpecAttendanceSeq == Init /\ [][NextAttendanceSeq]_vars

\* ------------------------------------------------- reports of the ledger
\* the filters of a report on the ledger: userId is the caller; a filter left
\* out of the query string is NULL (workerId, endDate, status and date are
\* left out throughout)
AttendanceFilters ==
  { [userId |-> u, projectId |-> pid, workerId |-> NULL, startDate |-> s,
     endDate |-> NULL] :
      u \in Users, pid \in {NULL, 1}, s \in {NULL, 20240116} }

\* the rows of whereClause: every filter that is given holds
AttendanceWhere(f) ==
  { a \in attendance :
      /\ f.userId = NULL \/ a.user_id = f.userId
      /\ f.projectId = NULL \/ a.project_id = f.projectId
      /\ f.workerId = NULL \/ a.worker_id = f.workerId
      /\ f.startDate = NULL \/ a.date >= f.startDate
      /\ f.endDate = NULL \/ a.date <= f.endDate }

\* the sum of the ratings of the rows S
RECURSIVE SumRatings(_)
SumRatings(S) ==
  IF S = {} THEN 0
  ELSE LET x == CHOOSE y \in S : TRUE IN x.rating + SumRatings(S \ {x})

\* the k-th statement of Promise.all in getAttendanceStats, on the store as
\* it is now: four counts, and AVG(rating) as <<sum, number of ratings>>
AttendanceStatsQuery(k, f) ==
  CASE k = 1 -> Cardinality(AttendanceWhere(f))
    [] k = 2 -> Cardinality({ a \in AttendanceWhere(f) : a.status = "Present" })
    [] k = 3 -> Cardinality({ a \in AttendanceWhere(f) : a.status = "Absent" })
    [] k = 4 -> Cardinality({ a \in AttendanceWhere(f) : a.status = "Late" })
    [] OTHER -> LET rated == { a \in AttendanceWhere(f) : a.rating # NULL } IN
                <<SumRatings(rated), Cardinality(rated)>>

\* Numbers are IEEE 754 doubles.  x.toFixed(2) is the n for which n / 100 - x
\* is closest to zero, the larger n of two; it is given here in hundredths.
\* When the exact quotient is not halfway between two hundredths the double
\* is far nearer to it than to the halfway point, and n is the quotient
\* rounded; when it is halfway, n depends on the side the double fell to.

\* the hundredth nearest to 100 * num / den, the larger of two
HalfUp(num, den) == (2 * num + den) \div (2 * den)

\* num / den is an odd integer
IsOdd(num, den) == num % den = 0 /\ (num \div den) % 2 = 1

\* the exponent of a / t as a double: the e with 2^e <= a / t < 2^(e+1)
RECURSIVE Exponent(_, _)
Exponent(a, t) ==
  IF a >= 2 * t THEN Exponent(a, 2 * t) + 1
  ELSE IF a < t THEN Exponent(2 * a, t) - 1
  ELSE 0

\* b^n modulo m
RECURSIVE PowMod(_, _, _)
PowMod(b, n, m) == IF n = 0 THEN 1 % m ELSE (b * PowMod(b, n - 1, m)) % m

\* The real m / (2^k * q), q odd, lies j / q of a unit in the last place
\* above the 53-bit number below it, e its exponent: j = m * 2^(52-e-k) mod q
Above(m, k, q, e) == ((m % q) * PowMod(2, 52 - e - k, q)) % q

\* n / d rounded to the nearest integer, to the one of parity even when
\* halfway (odd tells the parity of the number the integers are counted from)
NearestEven(n, d, odd) ==
  LET r0 == n \div d
      rem == n - r0 * d IN
  IF 2 * rem < d THEN r0
  ELSE IF 2 * rem > d THEN r0 + 1
  ELSE IF (r0 + (IF odd THEN 1 ELSE 0)) % 2 = 0 THEN r0 ELSE r0 + 1

\* parseFloat(avg).toFixed(2) for the AVG sum / count: the decimal the store
\* prints becomes the double nearest to sum / count.  Halfway is m / 200, m odd.
AverageRating(sum, count) ==
  IF count = 0 \/ sum = 0 THEN 0
  ELSE IF ~IsOdd(200 * sum, count) THEN HalfUp(100 * sum, count)
  ELSE LET m == (200 * sum) \div count
           j == Above(m, 3, 25, Exponent(sum, count)) IN
       \* j = 0: the double is the halfway point; j <= 12: it fell below
       IF j = 0 \/ j >= 13 THEN (m + 1) \div 2 ELSE (m - 1) \div 2

\* (counted / total * 100).toFixed(2): the quotient is rounded to a double,
\* the product by 100 is rounded again.  Halfway is counted / total =
\* m / 20000, m odd, where the product is m / 200 before its rounding.
AttendanceRate(counted, total) ==
  IF counted = 0 THEN 0
  ELSE IF ~IsOdd(20000 * counted, total) THEN HalfUp(10000 * counted, total)
  ELSE LET m == (20000 * counted) \div total
           e1 == Exponent(counted, total)
           e2 == Exponent(m, 200)
           d == e2 - e1                       \* 6 or 7, as 64 <= 100 < 128
           j1 == Above(m, 5, 625, e1)
           \* the error of the quotient, in 625ths of its unit in the last place
           fn == IF j1 <= 312 THEN -j1 ELSE 625 - j1
           jT == Above(m, 3, 25, e2)
           \* the exact product above the 53-bit number below m / 200, in
           \* units in the last place of m / 200: N / D
           N == jT * 2^d + 4 * fn
           D == 25 * 2^d
           \* below a power of two (m / 200 = 1 / 8) the numbers are twice as dense
           r == IF m = 25 /\ N < 0 THEN NearestEven(2 * N, D, FALSE)
                ELSE NearestEven(N, D, jT % 2 = 1)
           up == IF jT = 0 THEN r >= 0 ELSE r >= 1 IN
       IF up THEN (m + 1) \div 2 ELSE (m - 1) \div 2

\* the object getAttendanceStats returns for the five answers; attendanceRate
\* is in hundredths of a percent, averageRating in hundredths
AttendanceStatsResult(got) ==
  LET total == got[1]  present == got[2]  absent == got[3]  late == got[4]
      avg == got[5] IN
  [totalRecords |-> total, presentCount |-> present, absentCount |-> absent,
   lateCount |-> late, halfDayCount |-> total - present - absent - late,
   attendanceRate |-> IF total > 0 THEN AttendanceRate(present + late, total)
                      ELSE 0,
   averageRating |-> AverageRating(avg[1], avg[2])]

\* the answers got so far, with the answer of statement k
Answered(got, k, answer) ==
  [i \in DOMAIN got \cup {k} |-> IF i = k THEN answer ELSE got[i]]

\* getAttendanceStats: the call arrives and hands the five statements of
\* Promise.all to the pool, all at once; none has been executed yet
AttendanceStatsStart(p, f) ==
  /\ pc[p] = "idle"
  /\ Suspend(p, "attendanceStats",
       [caller |-> f.userId, filters |-> f, got |-> <<>>])
  /\ UNCHANGED <<payments, ledger>>

\* the store executes statement k of getAttendanceStats, any of those it has
\* not executed yet: the pool does not order them; after the last one the
\* result is sent
AttendanceStatsNext(p, k) ==
  /\ pc[p] = "attendanceStats"
  /\ k \notin DOMAIN loc[p].got
  /\ LET got == Answered(loc[p].got, k, AttendanceStatsQuery(k, loc[p].filters)) IN
     IF DOMAIN got # 1..5
       THEN Suspend(p, "attendanceStats", [loc[p] EXCEPT !.got = got])
       ELSE Finish(p, [Respond("attendanceStats", "OK") EXCEPT
                         !.stats = AttendanceStatsResult(got)])
  /\ UNCHANGED <<payments, ledger>>

\* getAttendanceRecords: the call arrives and the store executes the SELECT
\* of the page; page 1 holds every row the bounded store can match
AttendanceListRows(p, f) ==
  /\ pc[p] = "idle"
  /\ Suspend(p, "attendanceListCount",
       [caller |-> f.userId, filters |-> f,
        rows |-> { a.id : a \in AttendanceWhere(f) }])
  /\ UNCHANGED <<payments, ledger>>

\* this.count(conditions): conditions holds user_id, worker_id and project_id,
\* never the range of dates
AttendanceCount(f) ==
  Cardinality({ a \in attendance :
    /\ f.userId = NULL \/ a.user_id = f.userId
    /\ f.workerId = NULL \/ a.worker_id = f.workerId
    /\ f.projectId = NULL \/ a.project_id = f.projectId })

\* getAttendanceRecords: the store executes the count and the page is sent
\* with totalCount in its pagination
AttendanceListCount(p) ==
  /\ pc[p] = "attendanceListCount"
  /\ Finish(p, [Respond("attendanceList", "OK") EXCEPT
                  !.processed = loc[p].rows,
                  !.count = AttendanceCount(loc[p].filters)])
  /\ UNCHANGED <<payments, ledger>>

\* the owner of worker 1 and project 1 starts a call of the ledger on them:
\* the calls that overlap a report in SpecAttendanceStats
StartOwnerAttendance(p) ==
  \/ \E d \in AttendanceDates, ci \in CheckIns, co \in CheckOuts,
        st \in AttendanceStatuses :
       CreateAttendanceCheck(p, 1, 1, 1, d, ci, co, st)
  \/ \E d \in AttendanceDates, c \in Comments :
       MarkAttendanceCheck(p, 1, 1, 1, d, "Present", 3, c)
  \/ \E id \in 1..MaxAttendance :
       UpdateAttendanceFind(p, 1, id, <<Field("status", "Absent")>>)
  \/ \E id \in 1..MaxAttendance : DeleteAttendanceFind(p, 1, id)

\* the filters of the statistics the owner asks for in SpecAttendanceStats
OwnerFilters == { f \in AttendanceFilters : f.userId = 1 /\ f.projectId = NULL }

\* the process that asks for statistics while Serial serves the other calls
Reader == CHOOSE p \in Procs : p # Serial

\* The owner's calls of the ledger come one at a time, on any date, while the
\* statements of one getAttendanceStats at a time interleave with them.
NextAttendanceStats ==
  \/ StartOwnerAttendance(Serial) \/ ResumeAttendance(Serial)
  \/ \E f \in OwnerFilters : AttendanceStatsStart(Reader, f)
  \/ \E k \in 1..5 : AttendanceStatsNext(Reader, k)
SpecAttendanceStats == Init /\ [][NextAttendanceStats]_vars

\* Calls of the ledger and its reports come one at a time, on any date.
NextAttendanceReports ==
  \/ StartAttendance(Serial, AttendanceDates) \/ ResumeAttendance(Serial)
  \/ \E f \in AttendanceFilters : AttendanceStatsStart(Serial, f)
  \/ \E k \in 1..5 : AttendanceStatsNext(Serial, k)
  \/ \E f \in AttendanceFilters : AttendanceListRows(Serial, f)
  \/ AttendanceListCount(Serial)
SpecAttendanceReports == Init /\ [][NextAttendanceReports]_vars

\* --------------------------------------------- statistics of the engine
\* the filters of getPaymentStats: userId is the caller; a filter left out of
\* the query string is NULL (endDate is left out throughout)
PaymentFilters ==
  { [userId |-> u, projectId |-> pid, startDate |-> s, endDate |-> NULL] :
      u \in Users, pid \in {NULL, 1}, s \in {NULL, 20240116} }

\* the rows of whereClause: every filter that is given holds
PaymentWhere(f) ==
  { r \in requests :
      /\ f.userId = NULL \/ r.user_id = f.userId
      /\ f.projectId = NULL \/ r.project_id = f.projectId
      /\ f.startDate = NULL \/ r.request_date >= f.startDate
      /\ f.endDate = NULL \/ r.request_date <= f.endDate }

\* the statistics with SUM(total_amount) taken over every matching row
PaymentStatsQueryAnyStatus(k, f) ==
  CASE k = 1 -> Cardinality(PaymentWhere(f))
    [] k = 2 -> Cardinality({ r \in PaymentWhere(f) : r.status = "Pending" })
    [] k = 3 -> Cardinality({ r \in PaymentWhere(f) : r.status = "Approved" })
    [] k = 4 -> Cardinality({ r \in PaymentWhere(f) : r.status = "Rejected" })
    [] k = 5 -> Cardinality({ r \in PaymentWhere(f) : r.status = "Processed" })
    [] OTHER -> SumSet(PaymentWhere(f))

\* the k-th statement of Promise.all in getPaymentStats, on the store as it
\* is now: five counts and SUM(total_amount), 0 for the NULL of no row
PaymentStatsQuery(k, f) ==
  CASE k = 1 -> Cardinality(PaymentWhere(f))
    [] k = 2 -> Cardinality({ r \in PaymentWhere(f) : r.status = "Pending" })
    [] k = 3 -> Cardinality({ r \in PaymentWhere(f) : r.status = "Approved" })
    [] k = 4 -> Cardinality({ r \in PaymentWhere(f) : r.status = "Rejected" })
    [] k = 5 -> Cardinality({ r \in PaymentWhere(f) : r.status = "Processed" })
    [] OTHER -> SumSet({ r \in PaymentWhere(f) :
                           r.status \in {"Approved", "Processed"} })

\* the object getPaymentStats returns for the six answers
PaymentStatsResult(got) ==
  [totalRequests |-> got[1], pendingRequests |-> got[2],
   approvedRequests |-> got[3], rejectedRequests |-> got[4],
   processedRequests |-> got[5], totalApprovedAmount |-> got[6]]

\* getPaymentStats: the call arrives and hands the six statements of
\* Promise.all to the pool, all at once; none has been executed yet
PaymentStatsStart(p, f) ==
  /\ pc[p] = "idle"
  /\ Suspend(p, "paymentStats",
       [caller |-> f.userId, filters |-> f, got |-> <<>>])
  /\ UNCHANGED <<payments, ledger>>

\* the store executes statement k of getPaymentStats, any of those it has not
\* executed yet: the pool does not order them; after the last one the result
\* is sent
PaymentStatsNext(p, k) ==
  /\ pc[p] = "paymentStats"
  /\ k \notin DOMAIN loc[p].got
  /\ LET got == Answered(loc[p].got, k, PaymentStatsQuery(k, loc[p].filters)) IN
     IF DOMAIN got # 1..6
       THEN Suspend(p, "paymentStats", [loc[p] EXCEPT !.got = got])
       ELSE Finish(p, [Respond("paymentStats", "OK") EXCEPT
                         !.stats = PaymentStatsResult(got)])
  /\ UNCHANGED <<payments, ledger>>

\* One call at a time, on any request id, statistics among them; the store
\* executes every statement.
NextReports ==
  \/ Start(Serial, RequestIds) \/ Resume(Serial)
  \/ \E f \in PaymentFilters : PaymentStatsStart(Serial, f)
  \/ \E k \in 1..6 : PaymentStatsNext(Serial, k)
SpecReports == Init /\ [][NextReports]_vars

\* Calls of the engine on one request id and calls of the ledger on one date
\* come one at a time, in any order.
NextBoth ==
  \/ Start(Serial, Contended) \/ Resume(Serial)
  \/ StartAttendance(Serial, ContendedDates) \/ ResumeAttendance(Serial)
SpecBoth == Init /\ [][NextBoth]_vars

\* ------------------------------------------------------------ the routers
\* The specifications above start at the handlers of the controllers.  A
\* request that comes through a router first meets the middleware the route
\* was registered with.

\* the schemas middleware/validation.js exports
Schemas ==
  { "userRegistration", "userLogin", "createWorker", "createWorkerWithCard",
    "createProject", "createAttendance", "markAttendanceAndRate",
    "paymentRequest", "paginationQuery", "companyRegistration", "companyUpdate" }

\* a route registered without validate(...)
NoSchema == "none"

\* the schema the route of an operation hands to validate
RouteSchema(op) ==
  CASE op = "create" -> "createPaymentRequest"
    [] op = "approve" -> "approvePaymentRequest"
    [] op = "reject" -> "rejectPaymentRequest"
    [] op = "process" -> "processPayments"
    [] op = "record" -> "createAttendance"
    [] op = "mark" -> "markAttendanceWithRating"
    [] op = "update" -> "updateAttendance"
    [] OTHER -> NoSchema

\* validate(undefined): schema.validate throws a TypeError on every request
\* of the route
RouteThrows(op) == RouteSchema(op) # NoSchema /\ RouteSchema(op) \notin Schemas

\* a request of p meets a route whose middleware throws: the error handler
\* answers 500 and the handler is not reached
RouteRefuses(p, op) ==
  /\ pc[p] = "idle"
  /\ RouteThrows(op)
  /\ Finish(p, Respond(op, "Internal"))
  /\ UNCHANGED <<payments, ledger>>

\* a request arrives at the router of the engine; its body has the shape
\* the handler reads
RoutePayments(p, rids) ==
  \/ IF RouteThrows("create") THEN RouteRefuses(p, "create")
     ELSE \E u \in Callers, rid \in rids, pid \in ProjectIds,
             d \in RequestDates, ws \in WorkerLists, n \in Notes :
            CreateCheck(p, u, rid, pid, d, ws, n)
  \/ IF RouteThrows("approve") THEN RouteRefuses(p, "approve")
     ELSE \E u \in Callers, rid \in rids : ApproveFind(p, u, rid)
  \/ IF RouteThrows("reject") THEN RouteRefuses(p, "reject")
     ELSE \E u \in Callers, rid \in rids, why \in Reasons :
            RejectFind(p, u, rid, why)
  \/ IF RouteThrows("process") THEN RouteRefuses(p, "process")
     ELSE \E u \in Callers, ids \in IdLists : ProcessStart(p, u, ids)
  \/ \E u \in Callers, id \in 1..MaxRequests : DeleteFind(p, u, id)
  \/ \E u \in Callers, id \in 1..MaxRequests : GetFind(p, u, id)
  \/ \E f \in PaymentFilters : PaymentStatsStart(p, f)

\* a request arrives at the router of the ledger; its body has the shape the
\* schema of its route asks for
RouteAttendance(p, dates) ==
  \/ IF RouteThrows("record") THEN RouteRefuses(p, "record")
     ELSE \E u \in Callers, w \in WorkerIds, pid \in ProjectIds, d \in dates,
             ci \in CheckIns, co \in CheckOuts, st \in AttendanceStatuses :
            CreateAttendanceCheck(p, u, w, pid, d, ci, co, st)
  \/ IF RouteThrows("mark") THEN RouteRefuses(p, "mark")
     ELSE \E u \in Callers, w \in WorkerIds, pid \in ProjectIds, d \in dates,
             st \in AttendanceStatuses, r \in Ratings, c \in Comments :
            MarkAttendanceCheck(p, u, w, pid, d, st, r, c)
  \/ IF RouteThrows("update") THEN RouteRefuses(p, "update")
     ELSE \E u \in Callers, id \in 1..MaxAttendance, data \in UpdateInputs :
            UpdateAttendanceFind(p, u, id, data)
  \/ \E u \in Callers, id \in 1..MaxAttendance : DeleteAttendanceFind(p, u, id)
  \/ \E f \in AttendanceFilters : AttendanceStatsStart(p, f)
  \/ \E f \in AttendanceFilters : AttendanceListRows(p, f)

\* Requests come through the two routers, one at a time: with the schemas as
\* they are, no request creates, approves, rejects or processes a payment
\* request, and none marks or updates an attendance record.
NextRoutes ==
  \/ RoutePayments(Serial, RequestIds) \/ Resume(Serial)
  \/ \E k \in 1..6 : PaymentStatsNext(Serial, k)
  \/ RouteAttendance(Serial, AttendanceDates) \/ ResumeAttendance(Serial)
  \/ \E k \in 1..5 : AttendanceStatsNext(Serial, k)
  \/ AttendanceListCount(Serial)
SpecRoutes == Init /\ [][NextRoutes]_vars

\* ------------------------------------------------------------- claims
Failed(op, kinds) == { Respond(op, k) : k \in kinds }

\* what the first step of Approve(u, rid) by p has to do: refuse an absent
\* requestId with NotFound and a non-Pending request with InvalidState, go on
\* to the update for a Pending one, and change no stored data
ApproveAnswers(p, u, rid) ==
  LET found == { r \in requests : r.request_id = rid } IN
    /\ requests' = requests /\ lines' = lines
    /\ found = {} => response' = Respond("approve", "NotFound")
    /\ (\E r \in found : r.status # "Pending") =>
         response' = Respond("approve", "InvalidState")
    /\ (\E r \in found : r.status = "Pending") =>
         /\ pc'[p] = "approveUpdate"
         /\ loc'[p].caller = u /\ loc'[p].requestId = rid

\* what the update step of an Approve by p has to do when its caller is an
\* account: the request is Pending and becomes Approved by the caller at an
\* instant that is set, nothing else changes and the call succeeds
ApproveApplies(p) ==
  (/\ pc[p] = "approveUpdate" /\ pc'[p] # "approveUpdate"
   /\ loc[p].caller \in Users) =>
    \E r \in requests :
      /\ r.request_id = loc[p].requestId /\ r.status = "Pending"
      /\ response' = Respond("approve", "OK")
      /\ \E t \in Times :
           /\ t # NULL
           /\ requests' = (requests \ {r}) \cup
                {[r EXCEPT !.status = "Approved",
                           !.approved_by = loc[p].caller,
                           !.approved_at = t]}
      /\ lines' = lines

\* C1: Approve(userId, requestId), userId an account, succeeds if and only if
\* a request with that requestId exists and is Pending; it then becomes Approved with approvedBy =
\* userId and approvedAt set; an absent requestId fails with NotFound, a
\* non-Pending request with InvalidState, and a failure changes no stored data.
C1_ApproveContract ==
  /\ [](\A p \in Procs, u \in Users, rid \in RequestIds :
          ~ENABLED (ApproveFind(p, u, rid) /\ ~ApproveAnswers(p, u, rid)))
  /\ [][/\ \A p \in Procs : ApproveApplies(p)
        /\ response' = Respond("approve", "OK") =>
             \E q \in Procs : pc[q] = "approveUpdate" ]_vars

\* an Approve by account 2 has just succeeded on a request of account 1
C1_Witness ==
  /\ response = Respond("approve", "OK")
  /\ \E r \in requests : /\ r.status = "Approved" /\ r.user_id = 1
                         /\ r.approved_by = 2 /\ r.approved_at # NULL

\* C2: in every execution, concurrent ones included, a request's stored status
\* changes only from Pending to Approved, from Pending to Rejected or from
\* Approved to Processed; a Rejected or Processed request never changes status.
C2_LegalTransitions ==
  [][\A r \in requests : \A r2 \in requests' :
       (r2.id = r.id /\ r2.status # r.status) =>
         <<r.status, r2.status>> \in { <<"Pending", "Approved">>,
                                       <<"Pending", "Rejected">>,
                                       <<"Approved", "Processed">> }]_vars

\* C3: of two concurrent Approve calls on one Pending request, the one that
\* finds the request already flipped to Approved fails with InvalidState and
\* leaves the winner's approvedBy/approvedAt in place.
C3_SecondApproveFails ==
  [][\A p \in Procs :
       ( /\ pc[p] = "approveUpdate" /\ pc'[p] = "idle"
         /\ \E r \in requests : r.id = loc[p].id /\ r.status = "Approved" ) =>
         /\ response' = Respond("approve", "InvalidState")
         /\ requests' = requests ]_vars

\* the request named by id exists, is owned by userId and is Approved
GoodItem(userId, id) ==
  \E r \in requests : r.id = id /\ r.user_id = userId /\ r.status = "Approved"

BadBatch(userId, ids) == \E i \in DOMAIN ids : ~GoodItem(userId, ids[i])

\* a step of a bad batch changes nothing and ends in a failure or goes on
\* validating
BatchRefused(p) ==
  /\ requests' = requests /\ lines' = lines
  /\ \/ response' \in Failed("process", {"NotFound", "Forbidden", "InvalidState"})
     \/ pc'[p] = "processValidate"

\* C4: a ProcessBatch naming at least one request that is absent, not owned by
\* userId or not Approved fails (NotFound, Forbidden or InvalidState), and no
\* step of it changes any request: it never reaches its updates.
C4_BadBatchChangesNothing ==
  /\ [](\A p \in Procs, u \in Users, ids \in IdLists :
          BadBatch(u, ids) =>
            ~ENABLED ( /\ ProcessStart(p, u, ids)
                       /\ ~( /\ BatchRefused(p)
                             /\ pc'[p] = "processValidate" =>
                                  (loc'[p].caller = u /\ loc'[p].ids = ids) ) ))
  /\ [][\A p \in Procs :
          (pc[p] = "processValidate" /\ BadBatch(loc[p].caller, loc[p].ids)) =>
            /\ BatchRefused(p)
            /\ pc'[p] = "processValidate" =>
                 /\ loc'[p].caller = loc[p].caller
                 /\ loc'[p].ids = loc[p].ids
                 /\ Len(loc'[p].vals) > Len(loc[p].vals) ]_vars

\* a ProcessBatch has just failed with InvalidState while an Approved request
\* and a Pending one are stored
C4_Witness ==
  /\ response = Respond("process", "InvalidState")
  /\ \E r \in requests : r.status = "Approved"
  /\ \E r \in requests : r.status = "Pending"

\* C5: when a ProcessBatch call returns, with success or any error, either
\* every request it names was set to Processed by the call or none was.
C5_NoPartialBatch ==
  [][\A p \in Procs :
       (pc[p] = "processUpdate" /\ pc'[p] = "idle") =>
         \/ response'.processed = {}
         \/ response'.processed = Range(loc[p].ids) ]_vars

\* C6: every stored payment request has totalAmount equal to the sum of the
\* stored totals of its lines, each of which is daysWorked * allowancePerDay.
C6_TotalIsSumOfLines ==
  \A r \in requests :
    /\ r.total_amount = SumSet(LinesOf(r.id))
    /\ \A l \in LinesOf(r.id) :
         l.total_amount = l.days_worked * l.allowance_per_day

\* a request of two lines of 20 days at 150.00 has been processed
C6_Witness ==
  \E r \in requests : /\ r.status = "Processed"
                      /\ Cardinality(LinesOf(r.id)) = 2
                      /\ r.total_amount = 600000

NoOrphanLines ==
  \A l \in lines : \E r \in requests : r.id = l.payment_request_id

\* the transaction step of p adds nothing, or one request and one line for
\* each input line
CreateAllOrNothing(p) ==
  (pc[p] = "createTransaction" /\ pc'[p] = "idle") =>
    LET ws == loc[p].workers
        added == requests' \ requests
        addedLines == lines' \ lines IN
      /\ requests \subseteq requests' /\ lines \subseteq lines'
      /\ \/ added = {} /\ addedLines = {}
         \/ /\ Cardinality(added) = 1
            /\ Cardinality(addedLines) = Len(ws)
            /\ \A r \in added :
                 /\ r.request_id = loc[p].requestId
                 /\ \A i \in DOMAIN ws : \E l \in addedLines :
                      /\ l.payment_request_id = r.id /\ l.line_no = i
                      /\ l.worker_id = ws[i].workerId
                      /\ l.days_worked = ws[i].daysWorked
                      /\ l.allowance_per_day = ws[i].allowancePerDay

\* the lines of a request that stays are the same; those of one that goes, go
LinesKept ==
  \A r \in requests :
    { l \in lines' : l.payment_request_id = r.id } =
      IF \E r2 \in requests' : r2.id = r.id THEN LinesOf(r.id) ELSE {}

\* C7: CreateRequest is all-or-nothing, also when a statement inside it fails:
\* a request is stored together with one line for each of its input lines or
\* not at all, its lines stay with it, and no line is stored without its request.
C7_CreateAtomic ==
  /\ []NoOrphanLines
  /\ [][(\A p \in Procs : CreateAllOrNothing(p)) /\ LinesKept]_vars

\* a statement inside CreateRequest has just failed, and nothing is stored
C7_Witness ==
  /\ response = Respond("create", "Internal")
  /\ nextId = 2 /\ requests = {} /\ lines = {}

UniqueRequestIds ==
  \A r1, r2 \in requests : r1.request_id = r2.request_id => r1 = r2

\* the store stays and the answer to a CreateRequest is kind
Refused(kind) ==
  /\ response' = Respond("create", kind)
  /\ requests' = requests /\ lines' = lines

\* no first step of a CreateRequest of p on inputs that satisfy case does
\* anything but answer kind and insert nothing
CreateRefuses(p, case(_, _, _, _), kind) ==
  \A u \in Users, rid \in RequestIds, pid \in ProjectIds,
     d \in RequestDates, ws \in WorkerLists, n \in Notes :
    case(u, rid, pid, ws) =>
      ~ENABLED (CreateCheck(p, u, rid, pid, d, ws, n) /\ ~Refused(kind))

\* the transaction step of a CreateRequest whose requestId has been taken
\* meanwhile answers Conflict and inserts nothing
LateDuplicateRefused(p) ==
  ( /\ pc[p] = "createTransaction" /\ pc'[p] = "idle"
    /\ \E r \in requests : r.request_id = loc[p].requestId ) =>
    /\ response' = Respond("create", "Conflict")
    /\ requests' = requests /\ lines' = lines

Used(u, rid, pid, ws) == \E r \in requests : r.request_id = rid

BadProject(u, rid, pid, ws) == ProjectOwner(pid) # u

BadWorker(u, rid, pid, ws) ==
  \E i \in DOMAIN ws : WorkerOwner(ws[i].workerId) # u

UsedOwned(u, rid, pid, ws) ==
  Used(u, rid, pid, ws) /\ ~BadProject(u, rid, pid, ws)

UsedForeign(u, rid, pid, ws) ==
  Used(u, rid, pid, ws) /\ BadProject(u, rid, pid, ws)

\* C8 as claimed: a CreateRequest whose requestId is already used fails with
\* Conflict and inserts nothing; at most one request has a given requestId.
C8_Original ==
  /\ [](UniqueRequestIds /\ \A p \in Procs : CreateRefuses(p, Used, "Conflict"))
  /\ [][\A p \in Procs : LateDuplicateRefused(p)]_vars

\* C8 amended: a CreateRequest whose requestId is already used inserts nothing
\* and fails with Conflict when userId owns the project, with NotFound when it
\* does not; at most one request has a given requestId, also when two
\* CreateRequest calls with one requestId run concurrently.
C8_DuplicateRefused ==
  /\ [](/\ UniqueRequestIds
        /\ \A p \in Procs : /\ CreateRefuses(p, UsedOwned, "Conflict")
                            /\ CreateRefuses(p, UsedForeign, "NotFound"))
  /\ [][\A p \in Procs : LateDuplicateRefused(p)]_vars

\* request 1 is stored and the insert that took id 2 has just been refused
C8_Witness ==
  /\ response = Respond("create", "Conflict")
  /\ nextId = 3
  /\ \E r \in requests : r.id = 1

EmptyLines(u, rid, pid, ws) == ws = <<>>

\* C9: a CreateRequest with no lines fails with Validation and inserts
\* nothing; no stored payment request has zero lines.
C9_EmptyLinesRefused ==
  /\ \A r \in requests : LinesOf(r.id) # {}
  /\ \A p \in Procs : CreateRefuses(p, EmptyLines, "Validation")

Foreign(u, rid, pid, ws) ==
  BadProject(u, rid, pid, ws) \/ BadWorker(u, rid, pid, ws)

ForeignNotFound(u, rid, pid, ws) ==
  \/ BadProject(u, rid, pid, ws)
  \/ BadWorker(u, rid, pid, ws) /\ ~Used(u, rid, pid, ws)

ForeignConflict(u, rid, pid, ws) ==
  BadWorker(u, rid, pid, ws) /\ UsedOwned(u, rid, pid, ws)

\* C10 as claimed: CreateRequest fails with NotFound and inserts nothing when
\* the project, or the worker of any line, is absent or not owned by userId.
C10_Original == \A p \in Procs : CreateRefuses(p, Foreign, "NotFound")

\* C10 amended: CreateRequest inserts nothing when the project, or the worker
\* of any line, is absent or not owned by userId; it fails with NotFound,
\* except that with an owned project and a requestId already in use it fails
\* with Conflict.
C10_ForeignRefused ==
  \A p \in Procs : /\ CreateRefuses(p, ForeignNotFound, "NotFound")
                   /\ CreateRefuses(p, ForeignConflict, "Conflict")

\* a CreateRequest has just failed with NotFound while a request is stored
C10_Witness ==
  /\ response = Respond("create", "NotFound")
  /\ requests # {}

\* C11: a ProcessBatch on a non-empty list of ids (an id may occur more than
\* once) whose requests all exist, are owned by the caller and are Approved
\* sets each named request to Processed and returns a count equal to the number
\* of requests it set to Processed and a total equal to the sum of the
\* totalAmount of exactly those requests.
C11_BatchResult ==
  [][\A p \in Procs :
       (pc[p] = "processUpdate" /\ pc'[p] = "idle" /\ response'.kind = "OK") =>
         /\ \A id \in Range(loc[p].ids) :
              \E r \in requests' : r.id = id /\ r.status = "Processed"
         /\ response'.processed = Range(loc[p].ids)
         /\ response'.count = Cardinality(response'.processed)
         /\ response'.total =
              SumSet({ r \in requests' : r.id \in response'.processed }) ]_vars

\* what the first step of Reject(u, rid, why) by p has to do: refuse an absent
\* requestId with NotFound and a non-Pending request with InvalidState, go on
\* to the update for a Pending one, and change no stored data
RejectAnswers(p, u, rid, why) ==
  LET found == { r \in requests : r.request_id = rid } IN
    /\ requests' = requests /\ lines' = lines
    /\ found = {} => response' = Respond("reject", "NotFound")
    /\ (\E r \in found : r.status # "Pending") =>
         response' = Respond("reject", "InvalidState")
    /\ (\E r \in found : r.status = "Pending") =>
         /\ pc'[p] = "rejectUpdate"
         /\ loc'[p].caller = u /\ loc'[p].requestId = rid
         /\ loc'[p].reason = why

\* what the update step of a Reject by p has to do when its caller is an
\* account: the request is Pending and becomes Rejected with the reason, the caller and an instant that is set,
\* nothing else changes and the call succeeds
RejectApplies(p) ==
  (/\ pc[p] = "rejectUpdate" /\ pc'[p] # "rejectUpdate"
   /\ loc[p].caller \in Users) =>
    \E r \in requests :
      /\ r.request_id = loc[p].requestId /\ r.status = "Pending"
      /\ response' = Respond("reject", "OK")
      /\ \E t \in Times :
           /\ t # NULL
           /\ requests' = (requests \ {r}) \cup
                {[r EXCEPT !.status = "Rejected",
                           !.rejection_reason = loc[p].reason,
                           !.approved_by = loc[p].caller,
                           !.approved_at = t]}
      /\ lines' = lines

\* C12: Reject(userId, requestId, reason), userId an account, succeeds if and
\* only if the request exists and is Pending; it then becomes Rejected with rejectionReason =
\* reason and approvedBy/approvedAt set to the rejecting caller and time; an
\* absent requestId fails with NotFound, a non-Pending request with
\* InvalidState, and a failure changes nothing.
C12_RejectContract ==
  /\ [](\A p \in Procs, u \in Users, rid \in RequestIds, why \in Reasons :
          ~ENABLED (RejectFind(p, u, rid, why) /\ ~RejectAnswers(p, u, rid, why)))
  /\ [][/\ \A p \in Procs : RejectApplies(p)
        /\ response' = Respond("reject", "OK") =>
             \E q \in Procs : pc[q] = "rejectUpdate" ]_vars

\* a Reject by account 2 has just succeeded on a request of account 1
C12_Witness ==
  /\ response = Respond("reject", "OK")
  /\ \E r \in requests : /\ r.status = "Rejected" /\ r.user_id = 1
                         /\ r.approved_by = 2 /\ r.approved_at # NULL
                         /\ r.rejection_reason \in Reasons

\* what the first step of Delete(u, id) by p has to do when u owns request id:
\* refuse a non-Pending request with InvalidState, go on to the removal of a
\* Pending one, and change no stored data
DeleteAnswers(p, u, id) ==
  LET found == { r \in requests : r.id = id /\ r.user_id = u } IN
    /\ requests' = requests /\ lines' = lines
    /\ (\E r \in found : r.status # "Pending") =>
         response' = Respond("delete", "InvalidState")
    /\ (\E r \in found : r.status = "Pending") =>
         (pc'[p] = "deleteExecute" /\ loc'[p].id = id /\ loc'[p].caller = u)

\* what the removal step of a Delete by p has to do: the request is Pending
\* and owned by the caller, it goes with all of its lines and nothing else
\* does, and the call succeeds
DeleteApplies(p) ==
  (pc[p] = "deleteExecute" /\ pc'[p] # "deleteExecute") =>
    \E r \in requests :
      /\ r.id = loc[p].id /\ r.status = "Pending" /\ r.user_id = loc[p].caller
      /\ response' = Respond("delete", "OK")
      /\ requests' = requests \ {r}
      /\ lines' = { l \in lines : l.payment_request_id # r.id }

\* C13: Delete by the owner succeeds if and only if the request is Pending,
\* and then removes the request together with all of its lines; on an
\* Approved, Rejected or Processed request it fails with InvalidState and the
\* request and its lines stay as they are.
C13_DeleteContract ==
  /\ [](\A p \in Procs, u \in Users, id \in 1..MaxRequests :
          ~ENABLED (DeleteFind(p, u, id) /\ ~DeleteAnswers(p, u, id)))
  /\ [][/\ \A p \in Procs : DeleteApplies(p)
        /\ response' = Respond("delete", "OK") =>
             \E q \in Procs : pc[q] = "deleteExecute" ]_vars

\* a Delete has just succeeded and no line is left, while another request
\* still has its lines
C13_Witness ==
  /\ response = Respond("delete", "OK")
  /\ \A l \in lines : \E r \in requests : r.id = l.payment_request_id
  /\ \E r \in requests : LinesOf(r.id) # {}
  /\ nextId > Cardinality(requests) + 1

\* the call of p is over with answer r and the store is as it was
RefusedWith(p, r) ==
  /\ response' = r /\ pc'[p] = "idle" /\ loc'[p] = NoLocals
  /\ requests' = requests /\ lines' = lines /\ nextId' = nextId

\* C14: a GetWithLines or a Delete by a caller who does not own the request
\* has one outcome, NotFound and no change of state, whether the request
\* exists under another owner, in whatever status, or does not exist.
C14_NonOwnerSeesNotFound ==
  \A p \in Procs, u \in Users, id \in 1..MaxRequests :
    (\A r \in requests : r.id = id => r.user_id # u) =>
      /\ ~ENABLED (GetFind(p, u, id) /\ ~RefusedWith(p, Respond("get", "NotFound")))
      /\ ~ENABLED (DeleteFind(p, u, id)
                     /\ ~RefusedWith(p, Respond("delete", "NotFound")))

\* a Delete has just been refused with NotFound although every id names a
\* request, all of them of account 1 and not all Pending: the caller was not
\* the owner
C14_Witness ==
  /\ response = Respond("delete", "NotFound")
  /\ \A id \in 1..MaxRequests : \E r \in requests : r.id = id /\ r.user_id = 1
  /\ \E r \in requests : r.status # "Pending"

\* C15: at any time the ledger holds at most one record for a (worker,
\* project, date) tuple, however calls of Record, MarkWithRating, Update and
\* Delete follow one another or interleave.
C15_OneRecordPerTuple ==
  \A a, b \in attendance :
    (a.worker_id = b.worker_id /\ a.project_id = b.project_id /\ a.date = b.date)
      => a = b

\* a MarkWithRating that found no record has just been refused by the store:
\* another call inserted the record of the tuple in between
C15_Witness ==
  /\ response = Respond("mark", "Conflict")
  /\ Cardinality(attendance) = 1

\* the call of p on the ledger is over with answer r and the ledger is as it
\* was
LedgerRefusedWith(p, r) ==
  /\ response' = r /\ pc'[p] = "idle" /\ loc'[p] = NoLocals
  /\ attendance' = attendance /\ nextAttendanceId' = nextAttendanceId

\* a Record(u, w, pid, d, ...) by p on a tuple that has a record is refused
\* with the answer kind(u, w, pid) and changes nothing
RecordOnExisting(p, kind(_, _, _)) ==
  \A u \in Users, w \in WorkerIds, pid \in ProjectIds, d \in AttendanceDates,
     ci \in CheckIns, co \in CheckOuts, st \in AttendanceStatuses :
    findByWorkerAndProject(w, pid, d) # {} =>
      ~ENABLED (CreateAttendanceCheck(p, u, w, pid, d, ci, co, st)
                  /\ ~LedgerRefusedWith(p, Respond("record", kind(u, w, pid))))

AlwaysConflict(u, w, pid) == "Conflict"

ConflictForOwner(u, w, pid) ==
  IF WorkerOwner(w) = u /\ ProjectOwner(pid) = u THEN "Conflict" ELSE "NotFound"

\* C16 as claimed: a Record for a (worker, project, date) tuple that already
\* has a record always fails with Conflict and leaves the record unchanged.
C16_Original == \A p \in Procs : RecordOnExisting(p, AlwaysConflict)

\* C16 amended: a Record for a tuple that already has a record, whichever
\* operation created it, fails and leaves the record unchanged: with Conflict
\* when the caller owns the worker and the project, with NotFound otherwise.
C16_ExistingTupleRefused == \A p \in Procs : RecordOnExisting(p, ConflictForOwner)

\* a Record has just failed with Conflict and every record of the ledger was
\* created by MarkWithRating (it has a rating and no checkIn)
C16_Witness ==
  /\ response = Respond("record", "Conflict")
  /\ attendance # {}
  /\ \A a \in attendance : a.check_in = NoTime /\ a.rating # NULL

\* the first step of a MarkWithRating by p has found the record of the tuple
\* and is about to write status, rating and comments to it; nothing is
\* written yet
MarkFindsRecord(p, w, pid, d, st, r, c) ==
  /\ pc'[p] = "markAttendanceUpdate"
  /\ \E a \in findByWorkerAndProject(w, pid, d) : loc'[p].id = a.id
  /\ loc'[p].data = MarkData(st, r, c)
  /\ attendance' = attendance /\ nextAttendanceId' = nextAttendanceId

\* the records of the tuple of record a after the step
TupleAfter(a) ==
  { b \in attendance' : /\ b.worker_id = a.worker_id
                        /\ b.project_id = a.project_id /\ b.date = a.date }

\* C17: a MarkWithRating that follows another one for the same (worker,
\* project, date) tuple, with a different rating, updates the record the
\* first one created instead of creating another: the tuple keeps exactly one
\* record, the same one, carrying the status, rating and comments of the
\* second call.
C17_SecondMarkUpdates ==
  /\ [](\A p \in Procs, u \in Users, w \in WorkerIds, pid \in ProjectIds,
           d \in AttendanceDates, st \in AttendanceStatuses, r \in Ratings,
           c \in Comments :
          (/\ AttendanceError(u, w, pid) = "none"
           /\ findByWorkerAndProject(w, pid, d) # {}) =>
            ~ENABLED (MarkAttendanceCheck(p, u, w, pid, d, st, r, c)
                        /\ ~MarkFindsRecord(p, w, pid, d, st, r, c)))
  /\ [][\A p \in Procs :
         (pc[p] = "markAttendanceUpdate" /\ pc'[p] = "idle") =>
           /\ response' = Respond("mark", "OK")
           /\ nextAttendanceId' = nextAttendanceId
           /\ Cardinality(attendance') = Cardinality(attendance)
           /\ \E a \in findAttendanceById(loc[p].id) :
                \E b \in attendance' :
                  /\ TupleAfter(a) = {b}
                  /\ b.id = a.id
                  /\ b.status = loc[p].data.status
                  /\ b.rating = loc[p].data.rating
                  /\ b.comments = loc[p].data.comments ]_vars

\* a second MarkWithRating has found the one record ever inserted, which a
\* MarkWithRating created (it has a rating and no checkIn), and is about to
\* write another rating to it
C17_Witness ==
  /\ nextAttendanceId = 2
  /\ \E p \in Procs :
       /\ pc[p] = "markAttendanceUpdate"
       /\ \E a \in attendance :
            /\ a.id = loc[p].id
            /\ a.check_in = NoTime
            /\ a.rating \in Ratings
            /\ a.rating # loc[p].data.rating

\* C18: a MarkWithRating on a tuple that already has a record changes only
\* the status, rating and comments of that record; its checkIn, checkOut,
\* owner, worker, project and date stay as they are, and so does every other
\* record.
C18_MarkFrame ==
  [][\A p \in Procs :
       (pc[p] = "markAttendanceUpdate" /\ pc'[p] = "idle") =>
         \E a \in findAttendanceById(loc[p].id) :
           attendance' = (attendance \ {a}) \cup
             { [a EXCEPT !.status = loc[p].data.status,
                         !.rating = loc[p].data.rating,
                         !.comments = loc[p].data.comments] } ]_vars

\* a MarkWithRating has just rated a record that Record created (it has a
\* checkIn) and that an Update gave a checkOut, while the ledger holds a
\* second record
C18_Witness ==
  /\ response = Respond("mark", "OK")
  /\ Cardinality(attendance) = 2
  /\ \E a \in attendance :
       /\ a.check_in \in CheckIns /\ a.check_out = "17:00"
       /\ a.rating = 3 /\ a.comments \in Comments

\* record id is owned by another account than u
OwnedByAnother(id, u) == \E a \in findAttendanceById(id) : a.user_id # u

\* C19: Update(attendanceId, fields, callerId) fails with NotFound when no
\* record has the id and with Forbidden when the record was created by another
\* account than callerId, and leaves the ledger unchanged in both cases; a
\* record is only ever modified by an Update of the account that owns it.
C19_UpdateOwnership ==
  /\ [](\A p \in Procs, u \in Users, id \in 1..MaxAttendance,
           data \in UpdateInputs :
          /\ findAttendanceById(id) = {} =>
               ~ENABLED (UpdateAttendanceFind(p, u, id, data)
                           /\ ~LedgerRefusedWith(p, Respond("update", "NotFound")))
          /\ OwnedByAnother(id, u) =>
               ~ENABLED (UpdateAttendanceFind(p, u, id, data)
                           /\ ~LedgerRefusedWith(p, Respond("update", "Forbidden"))))
  /\ [][\A p \in Procs :
         (pc[p] = "updateAttendanceWrite" /\ attendance' # attendance) =>
           \A a \in attendance \ attendance' :
             a.id = loc[p].id /\ a.user_id = loc[p].caller ]_vars

\* an Update has just been refused with Forbidden: the record exists and is
\* another account's
C19_Witness ==
  /\ response = Respond("update", "Forbidden")
  /\ attendance # {}

\* C20: Delete(attendanceId, callerId) on the ledger fails with NotFound when
\* no record has the id and with Forbidden, an outcome distinct from it, when
\* the record is owned by another account, and leaves the record in place;
\* when the caller owns the record the record is removed.
C20_DeleteOwnership ==
  /\ [](\A p \in Procs, u \in Users, id \in 1..MaxAttendance :
          /\ findAttendanceById(id) = {} =>
               ~ENABLED (DeleteAttendanceFind(p, u, id)
                           /\ ~LedgerRefusedWith(p,
                                  Respond("deleteAttendance", "NotFound")))
          /\ OwnedByAnother(id, u) =>
               ~ENABLED (DeleteAttendanceFind(p, u, id)
                           /\ ~LedgerRefusedWith(p,
                                  Respond("deleteAttendance", "Forbidden"))))
  /\ [][\A p \in Procs :
         (pc[p] = "deleteAttendanceExecute" /\ pc'[p] = "idle") =>
           /\ response' = Respond("deleteAttendance", "OK")
           /\ attendance' = attendance \ findAttendanceById(loc[p].id)
           /\ \A a \in attendance \ attendance' : a.user_id = loc[p].caller ]_vars

\* C21: every result of the attendance statistics has its attendanceRate
\* within [0, 100], Present + Late never above the total, and its
\* averageRating within [0, 5], and the rate is exactly 0 when the total is
\* zero, also for a call whose statements interleave with Record,
\* MarkWithRating, Update and Delete.
C21_StatsInRange ==
  response.op = "attendanceStats" =>
    /\ response.stats.presentCount + response.stats.lateCount
         <= response.stats.totalRecords
    /\ response.stats.attendanceRate \in 0..10000
    /\ response.stats.averageRating \in 0..500
    /\ response.stats.totalRecords = 0 => response.stats.attendanceRate = 0

\* C23: for one set of filters (userId, projectId, optional range of dates)
\* and one content of the store, the totalCount a list reports in its
\* pagination is the number of records that match all the filters, and is the
\* total the statistics report for these filters.
C23_ListCountMatchesFilters ==
  [][\A p \in Procs :
       (pc[p] = "attendanceListCount" /\ pc'[p] = "idle") =>
         /\ response'.count = Cardinality(AttendanceWhere(loc[p].filters))
         /\ response'.count = Cardinality(response'.processed)
         /\ response'.count =
              AttendanceStatsResult(
                [k \in 1..5 |-> AttendanceStatsQuery(k, loc[p].filters)]).totalRecords
    ]_vars

\* the requests that match the filters f, and those of them with status s
Matching(f) ==
  { r \in requests :
      /\ r.user_id = f.userId
      /\ f.projectId # NULL => r.project_id = f.projectId
      /\ f.startDate # NULL => r.request_date >= f.startDate
      /\ f.endDate # NULL => r.request_date <= f.endDate }

MatchingWith(f, s) == { r \in Matching(f) : r.status = s }

\* C22: on a store that does not change during the call, the payment
\* statistics of a set of filters give, for each status, the number of
\* matching requests with that status, the four counts adding up to
\* totalRequests, and as totalApprovedAmount the sum of totalAmount over the
\* matching requests that are Approved or Processed, 0 when there is none;
\* Pending and Rejected requests add nothing to it.
C22_PaymentStats ==
  [][\A p \in Procs :
       (pc[p] = "paymentStats" /\ pc'[p] = "idle") =>
         LET f == loc[p].filters  s == response'.stats IN
           /\ s.totalRequests = Cardinality(Matching(f))
           /\ s.pendingRequests = Cardinality(MatchingWith(f, "Pending"))
           /\ s.approvedRequests = Cardinality(MatchingWith(f, "Approved"))
           /\ s.rejectedRequests = Cardinality(MatchingWith(f, "Rejected"))
           /\ s.processedRequests = Cardinality(MatchingWith(f, "Processed"))
           /\ s.totalRequests = s.pendingRequests + s.approvedRequests
                                  + s.rejectedRequests + s.processedRequests
           /\ s.totalApprovedAmount =
                SumSet(MatchingWith(f, "Approved") \cup MatchingWith(f, "Processed"))
    ]_vars

\* statistics have just been sent that count a request which is Approved or
\* Processed and one which is Pending or Rejected, and sum less than the
\* amounts of all the requests
C22_Witness ==
  /\ response.op = "paymentStats"
  /\ response.stats.approvedRequests + response.stats.processedRequests = 1
  /\ response.stats.pendingRequests + response.stats.rejectedRequests = 1
  /\ response.stats.totalApprovedAmount > 0
  /\ response.stats.totalApprovedAmount < SumSet(requests)

\* row r2 is row r but for its status and the fields of the decision
KeptButDecision(r, r2) ==
  /\ r2.id = r.id /\ r2.total_amount = r.total_amount
  /\ r2.request_id = r.request_id /\ r2.user_id = r.user_id
  /\ r2.project_id = r.project_id /\ r2.request_date = r.request_date
  /\ r2.notes = r.notes

\* the awaits inside Approve, Reject and ProcessBatch
DecisionAwaits == {"approveUpdate", "rejectUpdate", "processValidate", "processUpdate"}

\* the request the step of p at a decision await writes to, if any
WrittenBy(p) ==
  CASE pc[p] \in {"approveUpdate", "rejectUpdate"} -> {loc[p].id}
    [] pc[p] = "processUpdate" -> {loc[p].vals[loc[p].k + 1].id}
    [] OTHER -> {}

\* C24: Approve, Reject and ProcessBatch never add, remove or modify a line
\* and never change totalAmount, requestId, owner, project, requestDate or
\* notes of a request; they leave every request they do not name entirely
\* unchanged; and the lines of a request are the same in every state from
\* its creation to its deletion.
C24_DecisionsFrame ==
  [][/\ \A r \in requests, r2 \in requests' :
          r2.id = r.id =>
            /\ KeptButDecision(r, r2)
            /\ { l \in lines' : l.payment_request_id = r.id } = LinesOf(r.id)
     /\ \A p \in Procs :
          (pc[p] \in DecisionAwaits /\ (pc'[p] # pc[p] \/ loc'[p] # loc[p])) =>
            /\ lines' = lines
            /\ { r.id : r \in requests' } = { r.id : r \in requests }
            /\ \A r \in requests : r.id \notin WrittenBy(p) => r \in requests'
     /\ (\/ \E p \in Procs : pc[p] = "idle" /\ pc'[p] \in DecisionAwaits
         \/ pc' = pc /\ response'.op \in {"approve", "reject", "process"}) =>
          lines' = lines /\ requests' = requests
    ]_vars

\* a ProcessBatch has just succeeded on one request while another request is
\* Pending, and both have the lines they were created with
C24_Witness ==
  /\ response.op = "process" /\ response.kind = "OK"
  /\ \E r1, r2 \in requests :
       /\ r1.status = "Processed" /\ r2.status = "Pending"
       /\ LinesOf(r1.id) # {} /\ LinesOf(r2.id) # {}

\* C25: a request goes from Approved to Processed at most once and is
\* reported as processed by at most one successful ProcessBatch, also when
\* two ProcessBatch calls naming it overlap: a ProcessBatch that succeeds has
\* itself taken the request of its last turn from Approved to Processed,
\* unless an earlier turn of the same call had written it.
C25_ProcessedOnce ==
  [][\A p \in Procs :
       (/\ pc[p] = "processUpdate" /\ pc'[p] = "idle"
        /\ response'.kind = "OK"
        /\ loc[p].vals[loc[p].k + 1].id \notin loc[p].done) =>
         \A r \in findById(loc[p].vals[loc[p].k + 1].id) : r.status = "Approved"
    ]_vars

\* C26: Delete never removes a request whose stored status is not Pending
\* when the delete statement runs: if an Approve or a Reject of the request
\* has committed since Delete tested the status, the request and its lines
\* stay.
C26_DeleteOnlyPending ==
  [][\A p \in Procs :
       (pc[p] = "deleteExecute" /\ pc'[p] = "idle") =>
         \A r \in findById(loc[p].id) :
           r.status # "Pending" =>
             /\ r \in requests'
             /\ { l \in lines' : l.payment_request_id = r.id } = LinesOf(r.id)
    ]_vars

\* C27: when two MarkWithRating calls of the owner for one (worker, project,
\* date) tuple without a record overlap, both succeed and the tuple has
\* exactly one record afterwards, with the rating of one of them: the insert
\* of a MarkWithRating that found no record succeeds, also when another
\* MarkWithRating has created the record of the tuple in between.
C27_ConcurrentMarksSucceed ==
  [][\A p \in Procs :
       (/\ pc[p] = "markAttendanceInsert" /\ pc'[p] = "idle"
        /\ \A a \in findByWorkerAndProject(loc[p].row.worker_id,
                      loc[p].row.project_id, loc[p].row.date) :
             a.check_in = NoTime /\ a.rating \in Ratings) =>
         /\ response' = Respond("mark", "OK")
         /\ \E a \in attendance' :
              /\ { b \in attendance' : /\ b.worker_id = loc[p].row.worker_id
                                       /\ b.project_id = loc[p].row.project_id
                                       /\ b.date = loc[p].row.date } = {a}
              /\ a.rating \in Ratings
    ]_vars

\* C28: in every reachable state a Pending request has approvedBy,
\* approvedAt and rejectionReason unset; an Approved or Processed one has
\* approvedBy and approvedAt set and rejectionReason unset; a Rejected one has
\* approvedBy and approvedAt set.
C28_DecisionFields ==
  \A r \in requests :
    /\ r.status = "Pending" =>
         r.approved_by = NULL /\ r.approved_at = NULL /\ r.rejection_reason = NoReason
    /\ r.status \in {"Approved", "Processed"} =>
         r.approved_by # NULL /\ r.approved_at # NULL /\ r.rejection_reason = NoReason
    /\ r.status = "Rejected" => r.approved_by # NULL /\ r.approved_at # NULL

\* the first step of an Approve or Reject by p has accepted caller u for the
\* request with id: the call is at its update, with u to be stored, and
\* nothing is written yet
DecisionAccepted(p, at, u, id) ==
  /\ pc'[p] = at /\ loc'[p].caller = u /\ loc'[p].id = id
  /\ requests' = requests /\ lines' = lines /\ nextId' = nextId

\* C29: Approve and Reject test no ownership: for every account, owner of the
\* request or not, and every Pending request the call succeeds and stores the
\* caller's id in approvedBy; ProcessBatch, Delete and GetWithLines succeed
\* for the owning account only.
C29_DecisionsByAnyCaller ==
  /\ [](\A p \in Procs, u \in Users, rid \in RequestIds :
          \A r \in findByRequestId(rid) :
            IsPending(r) =>
              /\ ~ENABLED (ApproveFind(p, u, rid)
                             /\ ~DecisionAccepted(p, "approveUpdate", u, r.id))
              /\ \A why \in Reasons :
                   ~ENABLED (RejectFind(p, u, rid, why)
                               /\ ~DecisionAccepted(p, "rejectUpdate", u, r.id)))
  /\ [][\A p \in Procs :
         /\ (/\ pc[p] \in {"approveUpdate", "rejectUpdate"} /\ pc'[p] = "idle"
             /\ loc[p].caller \in Users) =>
              /\ response'.kind = "OK"
              /\ \E r \in requests' :
                   r.id = loc[p].id /\ r.approved_by = loc[p].caller
         /\ (/\ pc[p] \in {"deleteExecute", "getLines"} /\ pc'[p] = "idle"
             /\ response'.kind = "OK") =>
              \A r \in findById(loc[p].id) : r.user_id = loc[p].caller
         /\ (/\ pc[p] = "processUpdate" /\ pc'[p] = "idle"
             /\ response'.kind = "OK") =>
              \A r \in requests' :
                r.id \in response'.processed => r.user_id = loc[p].caller
       ]_vars

\* an Approve has just succeeded for a caller who does not own the request:
\* the request is Approved and its approvedBy is not its owner
C29_Witness ==
  /\ response = Respond("approve", "OK")
  /\ \E r \in requests :
       r.status = "Approved" /\ r.approved_by # NULL /\ r.approved_by # r.user_id

\* C30: in every reachable state the worker and the project of an attendance
\* record are owned by the account stored as the record's owner, and the
\* project of a payment request and the worker of each of its lines are owned
\* by the account that owns the request (the ownership of workers and
\* projects never changes): no operation creates or alters a record so that
\* it refers to a worker or project of another account.
C30_OwnedReferences ==
  /\ \A a \in attendance :
       WorkerOwner(a.worker_id) = a.user_id /\ ProjectOwner(a.project_id) = a.user_id
  /\ \A r \in requests :
       /\ ProjectOwner(r.project_id) = r.user_id
       /\ \A l \in LinesOf(r.id) : WorkerOwner(l.worker_id) = r.user_id

\* an Update that named nothing but another account's worker has just been
\* answered without a write, while the ledger has a record and a request has
\* lines
C30_Witness ==
  /\ response = Respond("update", "Internal")
  /\ attendance # {}
  /\ lines # {}
====
